---- MODULE Spec2Model ----
(***************************************************************************)
(* Model of the table / image geometry and interaction engine of           *)
(* src/app/components/Table.tsx: one Table instance with its image list,   *)
(* its two drag sessions, its in-flight file reads and the effects that    *)
(* React runs after each commit.                                           *)
(*                                                                         *)
(* Pixel quantities are JavaScript numbers.  They are modelled as exact    *)
(* rationals [n |-> numerator, d |-> denominator] in lowest terms, so that *)
(* the divisions of the auto-resize effect are computed, not approximated. *)
(***************************************************************************)
EXTENDS Integers, Sequences, FiniteSets, TLC

\* ------------------------------------------------------------------------
\* Bounds of the model
\* ------------------------------------------------------------------------
MaxUploads == 2          \* files dropped on the table over one behaviour
MaxFilesPerDrop == 2     \* files accepted in one drop
MaxMoves == 3            \* pointer-move events delivered over one behaviour
MaxEffort == 4           \* files dropped plus pointer-moves over one behaviour
MaxRepackLen == 3        \* images in a list handed to the repack step alone
MaxPages == 2            \* pages of the document
MaxPageTables == 3       \* tables of one page
MaxCallPages == 3        \* pages of a list handed to removePage alone

\* pointer coordinates (clientX / clientY) delivered by the browser: where a
\* pointer-down lands, and where the pointer-moves of a drag session go
DownPoints == {<<160, 240>>}
MovePoints == {<<0, 0>>, <<320, 480>>}
\* tableRef.current.offsetWidth as measured by the browser; 0 is the value
\* of an element without layout, for which the code falls back to 800
TableWidths == {0, 688}

\* ------------------------------------------------------------------------
\* JavaScript number arithmetic on exact rationals
\* ------------------------------------------------------------------------
Abs(i) == IF i < 0 THEN -i ELSE i

RECURSIVE Gcd(_, _)
Gcd(a, b) == IF b = 0 THEN a ELSE Gcd(b, a % b)

\* the rational n/d (d > 0) in lowest terms
Num(n, d) == LET g == Gcd(Abs(n), d) IN [n |-> n \div g, d |-> d \div g]

Q(i) == [n |-> i, d |-> 1]

Add(a, b) == Num(a.n * b.d + b.n * a.d, a.d * b.d)
Sub(a, b) == Num(a.n * b.d - b.n * a.d, a.d * b.d)
Mul(a, b) == Num(a.n * b.n, a.d * b.d)
\* a / b for b # 0
Div(a, b) == IF b.n > 0 THEN Num(a.n * b.d, a.d * b.n)
                        ELSE Num(-(a.n * b.d), a.d * (-b.n))

Lt(a, b) == a.n * b.d < b.n * a.d
Le(a, b) == a.n * b.d <= b.n * a.d

MathMax(a, b) == IF Lt(a, b) THEN b ELSE a
MathMin(a, b) == IF Lt(b, a) THEN b ELSE a

\* ------------------------------------------------------------------------
\* Program constants
\* ------------------------------------------------------------------------
NoId == 0                     \* null image id
Directions == {"n", "s", "e", "w", "ne", "nw", "se", "sw"}
DefaultHeight == 300          \* initialHeight / height after the last image is removed
MinTableHeight == 150
MinImageSize == 50
ImageGap == 20                \* spacing between images
TablePadding == 40            \* padding added below the lowest image
DefaultImageSize == 200       \* width and height of an inserted image
FallbackTableWidth == 800     \* offsetWidth || 800
RefitPadding == 20            \* cellPadding of the auto-resize effect

\* ------------------------------------------------------------------------
\* State
\* ------------------------------------------------------------------------
VARIABLES
    height,             \* useState(initialHeight)
    isResizing,         \* table-height drag flag
    leftColumnImages,   \* sequence of [id, width, height, x, y]
    isImageResizing,    \* image-resize drag flag
    resizingImageId,
    resizeDirection,
    selectedImageId,
    startY, startX,                 \* refs: pointer position at pointer-down
    startHeight, startWidth,        \* refs: captured height / width
    startImageX, startImageY,       \* refs: captured image offset
    tableWidth,         \* tableRef.current.offsetWidth
    bodyStyle,          \* document.body.style cursor / userSelect
    listener,           \* document-level mousemove/mouseup listeners and the
                        \* render values their closure captured
    reads,              \* FileReaders in flight: for each, the newY that its
                        \* onload computes from the image list it closed over
    nextId,             \* source of fresh image ids
    moves,              \* number of pointer-move events delivered so far
    last,               \* the last event that committed a height or an image
                        \* list: its handler, pointer position and image id
    preFit,             \* image list committed by the last handler, before
                        \* the auto-resize effect of that commit ran
    dragStart,          \* image list at the pointer-down of the image-resize
                        \* session in progress; empty when there is none
    drag                \* the drag session in progress as its pointer-down
                        \* found it: pointer Y and table height then, and
                        \* the position of the pointer-move that was the last
                        \* handler to run, if the last handler was one

tableVars == <<height, isResizing, leftColumnImages, isImageResizing,
               resizingImageId, resizeDirection, selectedImageId, startY, startX,
               startHeight, startWidth, startImageX, startImageY, tableWidth,
               bodyStyle, listener, reads, nextId, moves, last, preFit,
               dragStart, drag>>

\* DocumentEditor state
VARIABLES
    pages,              \* sequence of [id, tables: sequence of [id, height]]
    currentPageIndex,   \* 0-based index into pages
    zoom,               \* zoom percent
    docLast,            \* the last DocumentEditor handler that ran: its name,
                        \* the table id of a delete request (0 otherwise),
                        \* the number of pages its effects removed
    tableInstance       \* the Table component whose state the table
                        \* variables are: the id it is rendered for, and
                        \* whether React has it mounted

docVars == <<pages, currentPageIndex, zoom, docLast, tableInstance>>

vars == <<tableVars, docVars>>

refs == <<startY, startX, startHeight, startWidth, startImageX, startImageY>>

\* ------------------------------------------------------------------------
\* Helpers on image lists
\* ------------------------------------------------------------------------
Ids(imgs) == {imgs[i].id : i \in 1..Len(imgs)}

\* leftColumnImages.find((img) => img.id === imageId)
Find(imgs, id) == imgs[CHOOSE i \in 1..Len(imgs) : imgs[i].id = id]

Bottom(img) == Add(img.y, img.height)

\* Math.max(...imgs.map((img) => img.y + img.height)); -Infinity for an
\* empty list is represented by the caller
RECURSIVE MaxBottom(_)
MaxBottom(imgs) ==
    IF Len(imgs) = 1 THEN Bottom(imgs[1])
    ELSE MathMax(Bottom(imgs[1]), MaxBottom(Tail(imgs)))

\* Math.max(150, maxImageHeight + 40); Math.max() of no arguments is
\* -Infinity, which leaves 150
FitTableHeight(imgs) ==
    IF Len(imgs) = 0 THEN Q(MinTableHeight)
    ELSE MathMax(Q(MinTableHeight), Add(MaxBottom(imgs), Q(TablePadding)))

\* mutant: the reposition loop without its index === 0 case
RECURSIVE RepositionFromGap(_, _)
RepositionFromGap(imgs, done) ==
    IF imgs = <<>> THEN done
    ELSE LET newY == IF done = <<>> THEN Q(ImageGap)
                     ELSE Add(Bottom(done[Len(done)]), Q(ImageGap))
         IN RepositionFromGap(Tail(imgs),
                              Append(done, [imgs[1] EXCEPT !.y = newY]))

\* the forEach that reassigns y: first image at 0, every next one 20 below
\* the previous one
RECURSIVE Reposition(_, _)
Reposition(imgs, done) ==
    IF imgs = <<>> THEN done
    ELSE LET newY == IF done = <<>> THEN Q(0)
                     ELSE Add(Bottom(done[Len(done)]), Q(ImageGap))
         IN Reposition(Tail(imgs), Append(done, [imgs[1] EXCEPT !.y = newY]))

\* updatedImages.sort((a, b) => a.y - b.y): stable sort by y ascending
RECURSIVE InsertByY(_, _)
InsertByY(sorted, img) ==
    IF sorted = <<>> THEN <<img>>
    ELSE IF Lt(img.y, sorted[Len(sorted)].y)
         THEN Append(InsertByY(SubSeq(sorted, 1, Len(sorted) - 1), img),
                     sorted[Len(sorted)])
         ELSE Append(sorted, img)

\* mutant: the updated list left in its stored order
SortByYSkipped(imgs) == imgs

RECURSIVE SortByY(_)
SortByY(imgs) ==
    IF imgs = <<>> THEN <<>>
    ELSE InsertByY(SortByY(SubSeq(imgs, 1, Len(imgs) - 1)), imgs[Len(imgs)])

\* tableRef.current?.offsetWidth || 800
MeasuredTableWidth == IF tableWidth = 0 THEN FallbackTableWidth ELSE tableWidth

\* cellWidth = tableWidth * 0.5
CellWidth == Div(Q(MeasuredTableWidth), Q(2))

\* maxImageWidth = cellWidth - cellPadding, cellPadding = 0
MaxImageWidth == Sub(CellWidth, Q(0))

\* ------------------------------------------------------------------------
\* Image resize: the direction switch of handleMouseMove
\* ------------------------------------------------------------------------
\* Math.max(50, startHeight.current - deltaY)
NorthHeight(deltaY) == MathMax(Q(MinImageSize), Sub(startHeight, Q(deltaY)))
\* Math.max(50, startHeight.current + deltaY)
SouthHeight(deltaY) == MathMax(Q(MinImageSize), Add(startHeight, Q(deltaY)))
\* Math.max(50, Math.min(maxImageWidth, startWidth.current + deltaX))
EastWidth(deltaX) ==
    MathMax(Q(MinImageSize), MathMin(MaxImageWidth, Add(startWidth, Q(deltaX))))
\* mutant: the west edge with the sign of the east edge
WestWidthSignSlip(deltaX) ==
    MathMax(Q(MinImageSize), MathMin(MaxImageWidth, Add(startWidth, Q(deltaX))))

\* Math.max(50, Math.min(maxImageWidth, startWidth.current - deltaX))
WestWidth(deltaX) ==
    MathMax(Q(MinImageSize), MathMin(MaxImageWidth, Sub(startWidth, Q(deltaX))))
\* startImageY.current + (startHeight.current - newHeight)
NorthY(newHeight) == Add(startImageY, Sub(startHeight, newHeight))
\* mutant: the new x of a west resize without Math.max(0, ...)
WestXNoFloor(newWidth) ==
    MathMin(Add(startImageX, Sub(startWidth, newWidth)),
            Sub(MaxImageWidth, newWidth))

\* Math.max(0, Math.min(startImageX.current + (startWidth.current - newWidth),
\*                      maxImageWidth - newWidth))
WestX(newWidth) ==
    MathMax(Q(0), MathMin(Add(startImageX, Sub(startWidth, newWidth)),
                          Sub(MaxImageWidth, newWidth)))

\* the record returned for the image whose id is resizingImageId
ResizeImage(img, dir, deltaX, deltaY) ==
    CASE dir = "n" ->
           LET newHeight == NorthHeight(deltaY)
           IN [img EXCEPT !.height = newHeight, !.y = NorthY(newHeight)]
      [] dir = "s" ->
           [img EXCEPT !.height = SouthHeight(deltaY)]
      [] dir = "e" ->
           [img EXCEPT !.width = EastWidth(deltaX)]
      [] dir = "w" ->
           LET newWidth == WestWidth(deltaX)
           IN [img EXCEPT !.width = newWidth, !.x = WestX(newWidth)]
      [] dir = "ne" ->
           LET newHeight == NorthHeight(deltaY)
           IN [img EXCEPT !.height = newHeight, !.width = EastWidth(deltaX),
                          !.y = NorthY(newHeight)]
      [] dir = "nw" ->
           LET newHeight == NorthHeight(deltaY)
               newWidth == WestWidth(deltaX)
           IN [img EXCEPT !.height = newHeight, !.width = newWidth,
                          !.y = NorthY(newHeight), !.x = WestX(newWidth)]
      [] dir = "se" ->
           [img EXCEPT !.height = SouthHeight(deltaY),
                       !.width = EastWidth(deltaX)]
      [] dir = "sw" ->
           LET newWidth == WestWidth(deltaX)
           IN [img EXCEPT !.height = SouthHeight(deltaY), !.width = newWidth,
                          !.x = WestX(newWidth)]
      [] OTHER -> img

\* the updater passed to setLeftColumnImages by handleMouseMove: map, sort,
\* reposition
ResizeImages(prevImages, id, dir, deltaX, deltaY) ==
    LET updatedImages ==
            [i \in 1..Len(prevImages) |->
                IF prevImages[i].id = id
                THEN ResizeImage(prevImages[i], dir, deltaX, deltaY)
                ELSE prevImages[i]]
    IN Reposition(SortByY(updatedImages), <<>>)

\* mutant: the drag height without its lower limit
DragTableHeightUnclamped(clientY) == Add(startHeight, Q(clientY - startY))

\* Math.max(150, startHeight.current + deltaY) of the table-height drag
DragTableHeight(clientY) ==
    MathMax(Q(MinTableHeight), Add(startHeight, Q(clientY - startY)))

\* ------------------------------------------------------------------------
\* Image removal: the updater of the remove button
\* ------------------------------------------------------------------------
\* prev.filter((img) => img.id !== image.id)
FilterOut(prev, id) == SelectSeq(prev, LAMBDA img : img.id # id)

\* mutant: removal that leaves the gap of the removed image
RemoveImagesNoRepack(prev, id) == FilterOut(prev, id)

RemoveImages(prev, id) == Reposition(FilterOut(prev, id), <<>>)

\* setHeight(300) for an empty result, Math.max(150, maxImageHeight + 40)
\* otherwise
HeightAfterRemove(repositionedImages) ==
    IF Len(repositionedImages) = 0 THEN Q(DefaultHeight)
    ELSE FitTableHeight(repositionedImages)

\* ------------------------------------------------------------------------
\* Image insertion: reader.onload
\* ------------------------------------------------------------------------
\* mutant: newY taken from the bottom of the last image without the spacing
InsertYNoSpacing(captured) ==
    IF Len(captured) > 0
    THEN Bottom(captured[Len(captured)])
    ELSE Q(0)

\* newY as computed from the leftColumnImages captured by the closure
InsertY(captured) ==
    IF Len(captured) > 0
    THEN Add(Bottom(captured[Len(captured)]), Q(ImageGap))
    ELSE Q(0)

NewImage(id, newY) ==
    [id |-> id, width |-> Q(DefaultImageSize), height |-> Q(DefaultImageSize),
     x |-> Q(0), y |-> newY]

\* Math.max(150, newY + 200 + 40)
HeightAfterInsert(newY) ==
    MathMax(Q(MinTableHeight),
            Add(Add(newY, Q(DefaultImageSize)), Q(TablePadding)))

\* ------------------------------------------------------------------------
\* Effect: auto-resize images when the table height changes
\* ------------------------------------------------------------------------
\* maxWidth = cellWidth - 20
RefitMaxWidth == Sub(CellWidth, Q(RefitPadding))

\* mutant: the re-fit that also stretches an image to the available height
AutoResizeImageFills(image, h) ==
    LET availableHeight == Sub(h, Q(RefitPadding))
        imageBottom == Add(image.y, image.height)
    IN IF imageBottom # availableHeight
       THEN LET newHeight == MathMax(Q(MinImageSize),
                                     Sub(availableHeight, image.y))
                aspectRatio == Div(image.width, image.height)
                newWidth == Mul(newHeight, aspectRatio)
            IN IF Lt(RefitMaxWidth, newWidth)
               THEN [image EXCEPT !.width = RefitMaxWidth,
                                  !.height = Div(RefitMaxWidth, aspectRatio)]
               ELSE [image EXCEPT !.width = newWidth, !.height = newHeight]
       ELSE image

\* mutant: the re-fit measured against the padding of the height rule
AutoResizeImagePadding40(image, h) ==
    LET availableHeight == Sub(h, Q(TablePadding))
        imageBottom == Add(image.y, image.height)
    IN IF Lt(availableHeight, imageBottom)
       THEN LET newHeight == MathMax(Q(MinImageSize),
                                     Sub(availableHeight, image.y))
                aspectRatio == Div(image.width, image.height)
                newWidth == Mul(newHeight, aspectRatio)
            IN IF Lt(RefitMaxWidth, newWidth)
               THEN [image EXCEPT !.width = RefitMaxWidth,
                                  !.height = Div(RefitMaxWidth, aspectRatio)]
               ELSE [image EXCEPT !.width = newWidth, !.height = newHeight]
       ELSE image

AutoResizeImage(image, h) ==
    LET availableHeight == Sub(h, Q(RefitPadding))
        imageBottom == Add(image.y, image.height)
    IN IF Lt(availableHeight, imageBottom)
       THEN LET newHeight == MathMax(Q(MinImageSize),
                                     Sub(availableHeight, image.y))
                aspectRatio == Div(image.width, image.height)
                newWidth == Mul(newHeight, aspectRatio)
            IN IF Lt(RefitMaxWidth, newWidth)
               THEN [image EXCEPT !.width = RefitMaxWidth,
                                  !.height = Div(RefitMaxWidth, aspectRatio)]
               ELSE [image EXCEPT !.width = newWidth, !.height = newHeight]
       ELSE image

AutoResizeImages(prevImages, h) ==
    [i \in 1..Len(prevImages) |-> AutoResizeImage(prevImages[i], h)]

\* the effect runs after a commit in which height or leftColumnImages.length
\* differs from the previous render, and does nothing on an empty list
AutoResizeRuns(imgs, h) ==
    /\ Len(imgs) > 0
    /\ (h # height \/ Len(imgs) # Len(leftColumnImages))

\* one React commit: the state set by a handler, followed by the auto-resize
\* effect of that commit
Commit(imgs, h) ==
    /\ height' = h
    /\ preFit' = imgs
    /\ leftColumnImages' = IF AutoResizeRuns(imgs, h)
                           THEN AutoResizeImages(imgs, h)
                           ELSE imgs

\* ------------------------------------------------------------------------
\* DocumentEditor: pages, tables of a page, zoom
\* ------------------------------------------------------------------------
\* ids: "table-default" is 0 and the page "1" is 1; an id made from
\* Date.now() is any id not in use, modelled as the smallest one
DefaultTableId == 0
FirstPageId == 1
DefaultZoom == 100
MinZoom == 25
MaxZoom == 500
ZoomStep == 10
TableCap == 2

PageIdsOf(ps) == {ps[i].id : i \in 1..Len(ps)}
TableIdsOf(ps) == UNION {{ps[i].tables[j].id : j \in 1..Len(ps[i].tables)} :
                         i \in 1..Len(ps)}

FreshPageId(ps) ==
    CHOOSE n \in 2..(Len(ps) + 2) :
        /\ n \notin PageIdsOf(ps)
        /\ \A m \in 2..(n - 1) : m \in PageIdsOf(ps)

FreshTableId(ps) ==
    CHOOSE n \in 1..(Cardinality(TableIdsOf(ps)) + 1) :
        /\ n \notin TableIdsOf(ps)
        /\ \A m \in 1..(n - 1) : m \in TableIdsOf(ps)

NewTable(tableId) == [id |-> tableId, height |-> DefaultHeight]

DocEvent(op, id, removed) == [op |-> op, id |-> id, removed |-> removed]

\* PageContainer renders one Table, keyed by its id, for every table of
\* every page: the component is mounted when its table enters the page
\* list and unmounted, for good, when its table leaves it
Rendered(instance, ps) ==
    IF instance.status = "absent" /\ instance.id \in TableIdsOf(ps)
    THEN [instance EXCEPT !.status = "mounted"]
    ELSE IF instance.status = "mounted" /\ instance.id \notin TableIdsOf(ps)
    THEN [instance EXCEPT !.status = "unmounted"]
    ELSE instance

\* mutant: removePage that decrements the index without Math.max(0, ...)
RemovePageNoClamp(closure, doc, pageId) ==
    IF Len(closure) <= 1 THEN doc
    ELSE [pages |-> SelectSeq(doc.pages, LAMBDA page : page.id # pageId),
          currentPageIndex |-> doc.currentPageIndex - 1]

\* mutant: removePage whose test lets the last page go
RemovePageOffByOne(closure, doc, pageId) ==
    IF Len(closure) < 1 THEN doc
    ELSE [pages |-> SelectSeq(doc.pages, LAMBDA page : page.id # pageId),
          currentPageIndex |->
              IF doc.currentPageIndex - 1 > 0 THEN doc.currentPageIndex - 1
              ELSE 0]

\* removePage(pageId), called from a render whose page list was closure:
\* what it makes of the pending page list and page index
RemovePage(closure, doc, pageId) ==
    IF Len(closure) <= 1 THEN doc
    ELSE [pages |-> SelectSeq(doc.pages, LAMBDA page : page.id # pageId),
          currentPageIndex |->
              IF doc.currentPageIndex - 1 > 0 THEN doc.currentPageIndex - 1
              ELSE 0]

\* pages.forEach of the effect of PageContainer, from page i of the
\* rendered list on: onDeletePage for every page without tables
RECURSIVE ForEachEmptyPage(_, _, _)
ForEachEmptyPage(closure, i, doc) ==
    IF i > Len(closure) THEN doc
    ELSE ForEachEmptyPage(closure, i + 1,
                          IF Len(closure[i].tables) = 0
                          THEN RemovePage(closure, doc, closure[i].id)
                          ELSE doc)

\* mutant: the effect with an empty dependency list, which runs after the
\* first render only
DeleteEmptyPagesOnMountOnly(doc) == doc

\* the effect of PageContainer after a render, and again after the render
\* that its own removals cause
RECURSIVE DeleteEmptyPages(_)
DeleteEmptyPages(doc) ==
    LET after == ForEachEmptyPage(doc.pages, 1, doc)
    IN IF after.pages = doc.pages THEN after ELSE DeleteEmptyPages(after)

\* a handler has set the page list and the page index: render, effects
DocCommit(op, id, ps, idx) ==
    LET doc == DeleteEmptyPages([pages |-> ps, currentPageIndex |-> idx])
    IN /\ pages' = doc.pages
       /\ currentPageIndex' = doc.currentPageIndex
       /\ docLast' = DocEvent(op, id, Len(ps) - Len(doc.pages))
       /\ tableInstance' = Rendered(tableInstance, doc.pages)

\* updatePageTables(pageId, tables)
UpdatePageTables(ps, pageId, tables) ==
    [i \in 1..Len(ps) |-> IF ps[i].id = pageId
                          THEN [ps[i] EXCEPT !.tables = tables]
                          ELSE ps[i]]

\* currentPage.tables.findIndex(...): 0 stands for -1
FindIndex(tables, tableId) ==
    IF \E j \in 1..Len(tables) : tables[j].id = tableId
    THEN CHOOSE j \in 1..Len(tables) :
             /\ tables[j].id = tableId
             /\ \A k \in 1..(j - 1) : tables[k].id # tableId
    ELSE 0

\* newTables of insertTable(afterTableId)
InsertedTables(tables, afterTableId, newTable) ==
    LET afterIndex == FindIndex(tables, afterTableId)
    IN IF afterIndex # 0
       THEN SubSeq(tables, 1, afterIndex) \o <<newTable>>
            \o SubSeq(tables, afterIndex + 1, Len(tables))
       ELSE Append(tables, newTable)

\* addPage
AddPage ==
    /\ Len(pages) < MaxPages
    /\ LET newPage == [id |-> FreshPageId(pages),
                       tables |-> <<NewTable(FreshTableId(pages))>>]
       IN DocCommit("addPage", 0, Append(pages, newPage), Len(pages))
    /\ UNCHANGED zoom

\* onPageClick(index) / onPageSelect(index): setCurrentPageIndex
PageClick(index) ==
    /\ index \in 0..(Len(pages) - 1)
    /\ DocCommit("pageClick", 0, pages, index)
    /\ UNCHANGED zoom

\* insertTable(afterTableId), which works on pages[currentPageIndex]
InsertTable(afterTableId) ==
    /\ currentPageIndex < Len(pages)
    /\ LET currentPage == pages[currentPageIndex + 1]
           newTable == NewTable(FreshTableId(pages))
       IN /\ Len(currentPage.tables) < MaxPageTables
          /\ DocCommit("insertTable", 0,
                       UpdatePageTables(pages, currentPage.id,
                                        InsertedTables(currentPage.tables,
                                                       afterTableId, newTable)),
                       currentPageIndex)
    /\ UNCHANGED zoom

\* onClick of the Add Table button that follows table j of page i; the
\* button is rendered while that page has fewer than 2 tables, and the click
\* does not propagate to the page
AddTableClick(i, j) ==
    /\ i \in 1..Len(pages)
    /\ j \in 1..Len(pages[i].tables)
    /\ Len(pages[i].tables) < TableCap
    /\ InsertTable(pages[i].tables[j].id)

\* deleteTable(tableId), which works on pages[currentPageIndex]
DeleteTable(tableId) ==
    /\ currentPageIndex < Len(pages)
    /\ LET currentPage == pages[currentPageIndex + 1]
           newTables == SelectSeq(currentPage.tables,
                                  LAMBDA table : table.id # tableId)
       IN DocCommit("deleteTable", tableId,
                    UpdatePageTables(pages, currentPage.id, newTables),
                    currentPageIndex)
    /\ UNCHANGED zoom

\* mutant: handleDelete without the test of the id
HandleDeleteUnguarded(id) == DeleteTable(id)

\* handleDelete of the Table with the given id
HandleDelete(id) ==
    IF id # DefaultTableId
    THEN DeleteTable(id)
    ELSE /\ docLast' = DocEvent("handleDelete", id, 0)
         /\ UNCHANGED <<pages, currentPageIndex, zoom, tableInstance>>

\* a delete request on table j of page i
DeleteClick(i, j) ==
    /\ i \in 1..Len(pages)
    /\ j \in 1..Len(pages[i].tables)
    /\ HandleDelete(pages[i].tables[j].id)

Min(a, b) == IF a < b THEN a ELSE b
Max(a, b) == IF a > b THEN a ELSE b

SetZoom(op, z) ==
    /\ zoom' = z
    /\ docLast' = DocEvent(op, 0, 0)
    /\ UNCHANGED <<pages, currentPageIndex, tableInstance>>

ZoomIn == SetZoom("zoomIn", Min(MaxZoom, zoom + ZoomStep))
ZoomOut == SetZoom("zoomOut", Max(MinZoom, zoom - ZoomStep))
ResetZoom == SetZoom("resetZoom", DefaultZoom)

\* mutant: the wheel handler without Math.max(25, ...)
HandleWheelNoFloor(ctrlKey, deltaY) ==
    IF ctrlKey
    THEN LET delta == IF deltaY > 0 THEN -ZoomStep ELSE ZoomStep
         IN SetZoom("wheel", Min(MaxZoom, zoom + delta))
    ELSE UNCHANGED docVars

\* handleWheel on the editor element
HandleWheel(ctrlKey, deltaY) ==
    IF ctrlKey
    THEN LET delta == IF deltaY > 0 THEN -ZoomStep ELSE ZoomStep
         IN SetZoom("wheel", Max(MinZoom, Min(MaxZoom, zoom + delta)))
    ELSE UNCHANGED docVars

\* handleKeyDown on the document
HandleKeyDown(ctrlKey, key) ==
    IF ctrlKey /\ key \in {"=", "+"}
    THEN SetZoom("key", Min(MaxZoom, zoom + ZoomStep))
    ELSE IF ctrlKey /\ key = "-"
    THEN SetZoom("key", Max(MinZoom, zoom - ZoomStep))
    ELSE IF ctrlKey /\ key = "0"
    THEN SetZoom("key", DefaultZoom)
    ELSE UNCHANGED docVars

WheelDeltas == {-100, 0, 100}
Keys == {"=", "+", "-", "0", "a"}

\* the initial document: one page holding the default table
InitDocument ==
    /\ pages = <<[id |-> FirstPageId,
                  tables |-> <<NewTable(DefaultTableId)>>]>>
    /\ currentPageIndex = 0
    /\ zoom = DefaultZoom
    /\ docLast = DocEvent("mount", 0, 0)
    /\ tableInstance = [id |-> DefaultTableId, status |-> "mounted"]

\* ------------------------------------------------------------------------
\* Record of the drag session in progress
\* ------------------------------------------------------------------------
NoDrag == [y0 |-> 0, height0 |-> Q(0), movedAt |-> <<>>]

\* a pointer-down at clientY begins a session on the table as it is now
DragBegun(clientY) == [y0 |-> clientY, height0 |-> height, movedAt |-> <<>>]

\* a pointer-move at (clientX, clientY) was handled
DragMoved(clientX, clientY) == [drag EXCEPT !.movedAt = <<clientX, clientY>>]

\* another handler ran
DragInterleaved == [drag EXCEPT !.movedAt = <<>>]

\* ------------------------------------------------------------------------
\* Effect: document-level drag listeners, deps [isResizing, isImageResizing]
\* ------------------------------------------------------------------------
NoListener ==
    [attached |-> FALSE, isResizing |-> FALSE, isImageResizing |-> FALSE,
     resizingImageId |-> NoId, resizeDirection |-> ""]

\* mutant: the listener effect without its cleanup function
DragListenersNoCleanup(r, ir, id, dir) ==
    IF r = isResizing /\ ir = isImageResizing
    THEN listener
    ELSE IF r \/ ir
         THEN [attached |-> TRUE, isResizing |-> r, isImageResizing |-> ir,
               resizingImageId |-> id, resizeDirection |-> dir]
         ELSE listener

\* the effect re-runs only when one of the two flags changes; its handlers
\* close over the values of the render that ran it
DragListeners(r, ir, id, dir) ==
    IF r = isResizing /\ ir = isImageResizing
    THEN listener
    ELSE IF r \/ ir
         THEN [attached |-> TRUE, isResizing |-> r, isImageResizing |-> ir,
               resizingImageId |-> id, resizeDirection |-> dir]
         ELSE NoListener

Event(op, cx, cy, id) == [op |-> op, clientX |-> cx, clientY |-> cy, id |-> id]

\* ------------------------------------------------------------------------
\* Initial state: a mounted table without images
\* ------------------------------------------------------------------------
Init ==
    /\ height = Q(DefaultHeight)
    /\ isResizing = FALSE
    /\ leftColumnImages = <<>>
    /\ isImageResizing = FALSE
    /\ resizingImageId = NoId
    /\ resizeDirection = ""
    /\ selectedImageId = NoId
    /\ startY = 0
    /\ startX = 0
    /\ startHeight = Q(0)
    /\ startWidth = Q(0)
    /\ startImageX = Q(0)
    /\ startImageY = Q(0)
    /\ tableWidth \in TableWidths
    /\ bodyStyle = [cursor |-> "", userSelect |-> ""]
    /\ listener = NoListener
    /\ reads = <<>>
    /\ nextId = 1
    /\ moves = 0
    /\ last = Event("mount", 0, 0, NoId)
    /\ preFit = <<>>
    /\ InitDocument
    /\ dragStart = <<>>
    /\ drag = NoDrag


\* a handler that sets neither the height nor the image list: no effect runs
NoCommit ==
    /\ height' = height
    /\ leftColumnImages' = leftColumnImages
    /\ preFit' = leftColumnImages

\* ------------------------------------------------------------------------
\* Actions
\* ------------------------------------------------------------------------
\* onDrop(acceptedFiles): one FileReader per file, each onload closing over
\* the leftColumnImages of the render that created onDrop
OnDrop(n) ==
    /\ reads' = reads \o [i \in 1..n |-> InsertY(leftColumnImages)]
    /\ NoCommit
    /\ UNCHANGED <<isResizing, isImageResizing, resizingImageId,
                   resizeDirection, selectedImageId, refs, tableWidth,
                   bodyStyle, listener, nextId, moves, last>>
    /\ UNCHANGED docVars
    /\ UNCHANGED dragStart
    /\ drag' = DragInterleaved

\* mutant: onload that builds the new list from the list its closure
\* captured, for a read started on the empty table
ReaderOnLoadFromClosure(k) ==
    /\ k \in 1..Len(reads)
    /\ LET newY == reads[k]
           newImage == NewImage(nextId, newY)
           prev == IF newY = Q(0) THEN <<>> ELSE leftColumnImages
       IN Commit(Append(prev, newImage), HeightAfterInsert(newY))
    /\ reads' = SubSeq(reads, 1, k - 1) \o SubSeq(reads, k + 1, Len(reads))
    /\ nextId' = nextId + 1
    /\ last' = Event("load", 0, 0, nextId)
    /\ UNCHANGED <<isResizing, isImageResizing, resizingImageId,
                   resizeDirection, selectedImageId, refs, tableWidth,
                   bodyStyle, listener, moves>>
    /\ UNCHANGED docVars
    /\ UNCHANGED dragStart
    /\ drag' = DragInterleaved

\* mutant: onload whose setters reach the state of the table although the
\* component is unmounted, as they would with the state kept outside of it
ReaderOnLoadIgnoresUnmount(k) ==
    /\ k \in 1..Len(reads)
    /\ LET newY == reads[k]
           newImage == NewImage(nextId, newY)
       IN Commit(Append(leftColumnImages, newImage), HeightAfterInsert(newY))
    /\ reads' = SubSeq(reads, 1, k - 1) \o SubSeq(reads, k + 1, Len(reads))
    /\ nextId' = nextId + 1
    /\ last' = Event("load", 0, 0, nextId)
    /\ UNCHANGED <<isResizing, isImageResizing, resizingImageId,
                   resizeDirection, selectedImageId, refs, tableWidth,
                   bodyStyle, listener, moves>>
    /\ UNCHANGED docVars
    /\ UNCHANGED dragStart
    /\ drag' = DragInterleaved

\* reader.onload of the k-th reader in flight.  setLeftColumnImages and
\* setHeight are the setters of this component's useState: React drops the
\* updates they queue once the component is unmounted
ReaderOnLoad(k) ==
    /\ k \in 1..Len(reads)
    /\ LET newY == reads[k]
           newImage == NewImage(nextId, newY)
       IN IF tableInstance.status = "mounted"
          THEN /\ Commit(Append(leftColumnImages, newImage),
                         HeightAfterInsert(newY))
               /\ last' = Event("load", 0, 0, nextId)
          ELSE /\ NoCommit
               /\ last' = Event("lateload", 0, 0, nextId)
    /\ reads' = SubSeq(reads, 1, k - 1) \o SubSeq(reads, k + 1, Len(reads))
    /\ nextId' = nextId + 1
    /\ UNCHANGED <<isResizing, isImageResizing, resizingImageId,
                   resizeDirection, selectedImageId, refs, tableWidth,
                   bodyStyle, listener, moves>>
    /\ UNCHANGED docVars
    /\ UNCHANGED dragStart
    /\ drag' = DragInterleaved

\* mutant: the pointer-down on the resize handle that leaves startHeight as
\* the last session set it
HandleMouseDownKeepsStartHeight(clientY) ==
    /\ isResizing' = TRUE
    /\ startY' = clientY
    /\ bodyStyle' = [cursor |-> "ns-resize", userSelect |-> "none"]
    /\ listener' = DragListeners(TRUE, isImageResizing, resizingImageId,
                                 resizeDirection)
    /\ NoCommit
    /\ UNCHANGED <<isImageResizing, resizingImageId, resizeDirection,
                   selectedImageId, startX, startHeight, startWidth,
                   startImageX, startImageY, tableWidth, reads, nextId, moves,
                   last>>
    /\ UNCHANGED docVars
    /\ UNCHANGED dragStart
    /\ drag' = DragBegun(clientY)

\* handleMouseDown on the table's resize handle
HandleMouseDown(clientY) ==
    /\ isResizing' = TRUE
    /\ startY' = clientY
    /\ startHeight' = height
    /\ bodyStyle' = [cursor |-> "ns-resize", userSelect |-> "none"]
    /\ listener' = DragListeners(TRUE, isImageResizing, resizingImageId,
                                 resizeDirection)
    /\ NoCommit
    /\ UNCHANGED <<isImageResizing, resizingImageId, resizeDirection,
                   selectedImageId, startX, startWidth, startImageX,
                   startImageY, tableWidth, reads, nextId, moves, last>>
    /\ UNCHANGED docVars
    /\ UNCHANGED dragStart
    /\ drag' = DragBegun(clientY)

\* handleImageMouseDown on one of the eight anchors, which are rendered for
\* the selected image only
HandleImageMouseDown(imageId, direction, clientX, clientY) ==
    /\ imageId \in Ids(leftColumnImages)
    /\ selectedImageId = imageId
    /\ isImageResizing' = TRUE
    /\ resizingImageId' = imageId
    /\ resizeDirection' = direction
    /\ startX' = clientX
    /\ startY' = clientY
    /\ LET image == Find(leftColumnImages, imageId)
       IN /\ startWidth' = image.width
          /\ startHeight' = image.height
          /\ startImageX' = image.x
          /\ startImageY' = image.y
    /\ bodyStyle' = [cursor |-> "ns-resize", userSelect |-> "none"]
    /\ listener' = DragListeners(isResizing, TRUE, imageId, direction)
    /\ NoCommit
    /\ UNCHANGED <<isResizing, selectedImageId, tableWidth, reads, nextId,
                   moves, last>>
    /\ UNCHANGED docVars
    /\ dragStart' = leftColumnImages
    /\ drag' = DragBegun(clientY)

\* handleMouseMove, as registered on the document by the listener effect
HandleMouseMove(clientX, clientY) ==
    /\ listener.attached
    /\ moves' = moves + 1
    /\ LET tableHeight == IF listener.isResizing
                          THEN DragTableHeight(clientY)
                          ELSE height
       IN IF listener.isImageResizing /\ listener.resizingImageId # NoId
          THEN LET repositionedImages ==
                       ResizeImages(leftColumnImages, listener.resizingImageId,
                                    listener.resizeDirection,
                                    clientX - startX, clientY - startY)
               IN Commit(repositionedImages, FitTableHeight(repositionedImages))
          ELSE Commit(leftColumnImages, tableHeight)
    /\ last' = Event("mousemove", clientX, clientY,
                      IF listener.isImageResizing THEN listener.resizingImageId
                      ELSE NoId)
    /\ UNCHANGED <<isResizing, isImageResizing, resizingImageId,
                   resizeDirection, selectedImageId, refs, tableWidth,
                   bodyStyle, listener, reads, nextId>>
    /\ UNCHANGED docVars
    /\ UNCHANGED dragStart
    /\ drag' = DragMoved(clientX, clientY)

\* mutant: the pointer-up that ends the session and leaves the cursor and
\* user-select styles of the body as the pointer-down set them
HandleMouseUpKeepsOverride ==
    /\ listener.attached
    /\ isResizing' = IF listener.isResizing THEN FALSE ELSE isResizing
    /\ isImageResizing' = IF listener.isImageResizing THEN FALSE
                          ELSE isImageResizing
    /\ bodyStyle' = bodyStyle
    /\ listener' = DragListeners(isResizing', isImageResizing',
                                 resizingImageId, resizeDirection)
    /\ NoCommit
    /\ UNCHANGED <<resizingImageId, resizeDirection, selectedImageId, refs,
                   tableWidth, reads, nextId, moves, last>>
    /\ UNCHANGED docVars
    /\ dragStart' = <<>>
    /\ drag' = NoDrag

\* handleMouseUp, as registered on the document by the listener effect
HandleMouseUp ==
    /\ listener.attached
    /\ isResizing' = IF listener.isResizing THEN FALSE ELSE isResizing
    /\ isImageResizing' = IF listener.isImageResizing THEN FALSE
                          ELSE isImageResizing
    /\ bodyStyle' = IF listener.isResizing \/ listener.isImageResizing
                    THEN [cursor |-> "", userSelect |-> ""]
                    ELSE bodyStyle
    /\ listener' = DragListeners(isResizing', isImageResizing',
                                 resizingImageId, resizeDirection)
    /\ NoCommit
    /\ UNCHANGED <<resizingImageId, resizeDirection, selectedImageId, refs,
                   tableWidth, reads, nextId, moves, last>>
    /\ UNCHANGED docVars
    /\ dragStart' = <<>>
    /\ drag' = NoDrag

\* handleImageClick
HandleImageClick(imageId) ==
    /\ imageId \in Ids(leftColumnImages)
    /\ selectedImageId' = imageId
    /\ NoCommit
    /\ UNCHANGED <<isResizing, isImageResizing, resizingImageId,
                   resizeDirection, refs, tableWidth, bodyStyle, listener,
                   reads, nextId, moves, last>>
    /\ UNCHANGED docVars
    /\ UNCHANGED dragStart
    /\ drag' = DragInterleaved

\* handleTableClick / handleCellClick / the click handlers of the image area
\* and of the right column: setSelectedImageId(null)
HandleTableClick ==
    /\ selectedImageId' = NoId
    /\ NoCommit
    /\ UNCHANGED <<isResizing, isImageResizing, resizingImageId,
                   resizeDirection, refs, tableWidth, bodyStyle, listener,
                   reads, nextId, moves, last>>
    /\ UNCHANGED docVars
    /\ UNCHANGED dragStart
    /\ drag' = DragInterleaved

\* onClick of the remove button of an image
RemoveImage(imageId) ==
    /\ imageId \in Ids(leftColumnImages)
    /\ LET repositionedImages == RemoveImages(leftColumnImages, imageId)
       IN Commit(repositionedImages, HeightAfterRemove(repositionedImages))
    /\ last' = Event("remove", 0, 0, imageId)
    /\ UNCHANGED <<isResizing, isImageResizing, resizingImageId,
                   resizeDirection, selectedImageId, refs, tableWidth,
                   bodyStyle, listener, reads, nextId, moves>>
    /\ UNCHANGED docVars
    /\ UNCHANGED dragStart
    /\ drag' = DragInterleaved

ImageIds == 1..MaxUploads

\* no drag session is active
Idle == ~isResizing /\ ~isImageResizing

\* files dropped so far
Dropped == Len(reads) + (nextId - 1)

\* the behaviour may still take n more files / one more pointer-move
MayDrop(n) == Dropped + n <= MaxUploads /\ Dropped + n + moves <= MaxEffort
MayMove == moves < MaxMoves /\ Dropped + moves < MaxEffort

\* The environment: a single pointer.  Between a pointer-down and the
\* pointer-up that ends the session the browser delivers pointer-moves only;
\* clicks, drops and further pointer-downs come when no session is active.
\* File reads complete at any time.
Drop == \E n \in 1..MaxFilesPerDrop : Idle /\ MayDrop(n) /\ OnDrop(n)

Load == \E k \in 1..MaxUploads : ReaderOnLoad(k)

TableDown == \E p \in DownPoints : Idle /\ MayMove /\ HandleMouseDown(p[2])

ImageDown ==
    \E id \in ImageIds, dir \in Directions, p \in DownPoints :
        Idle /\ MayMove /\ HandleImageMouseDown(id, dir, p[1], p[2])

Move == \E p \in MovePoints : MayMove /\ HandleMouseMove(p[1], p[2])

Up == HandleMouseUp

ImageClick == \E id \in ImageIds : Idle /\ HandleImageClick(id)

TableClick == Idle /\ HandleTableClick

Remove == \E id \in ImageIds : Idle /\ RemoveImage(id)

Next ==
    \/ Drop
    \/ Load
    \/ TableDown
    \/ ImageDown
    \/ Move
    \/ Up
    \/ ImageClick
    \/ TableClick
    \/ Remove

Spec == Init /\ [][Next]_vars

\* the same table when the resize handle of the table is never grabbed: only
\* insertions, image-resize sessions and removals mutate it
NextImageOps ==
    \/ Drop
    \/ Load
    \/ ImageDown
    \/ Move
    \/ Up
    \/ ImageClick
    \/ TableClick
    \/ Remove

SpecImageOps == Init /\ [][NextImageOps]_vars

\* a pointer-move dispatched on the document while the listener effect has
\* no handler registered there: no code of the table runs
UnheardMove(clientX, clientY) ==
    /\ ~listener.attached
    /\ moves' = moves + 1
    /\ last' = Event("unheard", clientX, clientY, NoId)
    /\ UNCHANGED <<height, isResizing, leftColumnImages, isImageResizing,
                   resizingImageId, resizeDirection, selectedImageId, refs,
                   tableWidth, bodyStyle, listener, reads, nextId, preFit>>
    /\ UNCHANGED docVars
    /\ UNCHANGED dragStart
    /\ drag' = DragInterleaved

IdleMove == \E p \in MovePoints : MayMove /\ UnheardMove(p[1], p[2])

\* the table with every pointer-move the browser dispatches, also those
\* that come while no drag session is active
NextPointer ==
    \/ Drop
    \/ Load
    \/ TableDown
    \/ ImageDown
    \/ Move
    \/ IdleMove
    \/ Up
    \/ ImageClick
    \/ TableClick
    \/ Remove

SpecPointer == Init /\ [][NextPointer]_vars

\* ------------------------------------------------------------------------
\* The document around the tables: its pages, their tables, the zoom
\* ------------------------------------------------------------------------
PageIndexes == 0..(MaxPages - 1)
PagePositions == 1..MaxPages
TablePositions == 1..MaxPageTables

DocAddPage == AddPage /\ UNCHANGED tableVars

DocPageClick ==
    \E index \in PageIndexes : PageClick(index) /\ UNCHANGED tableVars

DocAddTable ==
    \E i \in PagePositions, j \in TablePositions :
        AddTableClick(i, j) /\ UNCHANGED tableVars

DocDelete ==
    \E i \in PagePositions, j \in TablePositions :
        DeleteClick(i, j) /\ UNCHANGED tableVars

DocZoomIn == ZoomIn /\ UNCHANGED tableVars

DocZoomOut == ZoomOut /\ UNCHANGED tableVars

DocResetZoom == ResetZoom /\ UNCHANGED tableVars

DocWheel ==
    \E ctrlKey \in BOOLEAN, deltaY \in WheelDeltas :
        HandleWheel(ctrlKey, deltaY) /\ UNCHANGED tableVars

DocKeyDown ==
    \E ctrlKey \in BOOLEAN, key \in Keys :
        HandleKeyDown(ctrlKey, key) /\ UNCHANGED tableVars

\* the pages and their tables, at a zoom that is left alone
NextDocument ==
    \/ DocAddPage
    \/ DocPageClick
    \/ DocAddTable
    \/ DocDelete

SpecDocument == Init /\ [][NextDocument]_vars

\* the zoom, over a document that is left alone
NextZoom ==
    \/ DocZoomIn
    \/ DocZoomOut
    \/ DocResetZoom
    \/ DocWheel
    \/ DocKeyDown

SpecZoom == Init /\ [][NextZoom]_vars

\* ------------------------------------------------------------------------
\* A table that can be deleted: the Table component modelled is the one of
\* the first table created after the default table, on the first page (Add
\* Table) or as the table of a new page (Add Page).  It is deleted by its
\* delete button, and its page with it when it was the only table there;
\* file reads that it started complete whenever they complete.
\* ------------------------------------------------------------------------
FirstCreatedTableId == 1

InitUnmount ==
    /\ height = Q(DefaultHeight)
    /\ isResizing = FALSE
    /\ leftColumnImages = <<>>
    /\ isImageResizing = FALSE
    /\ resizingImageId = NoId
    /\ resizeDirection = ""
    /\ selectedImageId = NoId
    /\ startY = 0
    /\ startX = 0
    /\ startHeight = Q(0)
    /\ startWidth = Q(0)
    /\ startImageX = Q(0)
    /\ startImageY = Q(0)
    /\ tableWidth \in TableWidths
    /\ bodyStyle = [cursor |-> "", userSelect |-> ""]
    /\ listener = NoListener
    /\ reads = <<>>
    /\ nextId = 1
    /\ moves = 0
    /\ last = Event("mount", 0, 0, NoId)
    /\ preFit = <<>>
    /\ pages = <<[id |-> FirstPageId,
                  tables |-> <<NewTable(DefaultTableId)>>]>>
    /\ currentPageIndex = 0
    /\ zoom = DefaultZoom
    /\ docLast = DocEvent("mount", 0, 0)
    /\ tableInstance = [id |-> FirstCreatedTableId, status |-> "absent"]
    /\ dragStart = <<>>
    /\ drag = NoDrag

\* the elements of a Table receive events while it is mounted
Mounted == tableInstance.status = "mounted"

MountedDrop == Mounted /\ Drop

MountedImageClick == Mounted /\ ImageClick

MountedRemove == Mounted /\ Remove

NextUnmount ==
    \/ MountedDrop
    \/ Load
    \/ MountedImageClick
    \/ MountedRemove
    \/ DocAddPage
    \/ DocPageClick
    \/ DocAddTable
    \/ DocDelete

SpecUnmount == InitUnmount /\ [][NextUnmount]_vars

\* ------------------------------------------------------------------------
\* The table when the remove button of an image is activated during a drag
\* session: the button is a focusable element, so a key press clicks it
\* while the pointer still holds an anchor or the resize handle
\* ------------------------------------------------------------------------
RemoveAnytime == \E id \in ImageIds : RemoveImage(id)

NextStale ==
    \/ Drop
    \/ Load
    \/ TableDown
    \/ ImageDown
    \/ Move
    \/ Up
    \/ ImageClick
    \/ TableClick
    \/ RemoveAnytime

SpecStale == Init /\ [][NextStale]_vars

\* ------------------------------------------------------------------------
\* The table under the pointer positions and table widths of the worked
\* scenarios: a table 700 px wide (maxImageWidth 350) or without a measured
\* width (800 px, cell width 400), one image, drags of its east and west
\* edges and of the table's resize handle
\* ------------------------------------------------------------------------
ScenarioTableWidths == {0, 700}

\* pointer-moves of a session whose pointer-down was at (160, 240): the
\* deltas (0, +60) and (0, -200) of the table handle, (+150, 0), (+300, 0)
\* and (-100, 0) of an image edge
ScenarioMovePoints ==
    {<<160, 300>>, <<160, 40>>, <<310, 240>>, <<460, 240>>, <<60, 240>>}

ScenarioDirections == {"e", "w", "nw", "sw"}

InitScenario ==
    /\ height = Q(DefaultHeight)
    /\ isResizing = FALSE
    /\ leftColumnImages = <<>>
    /\ isImageResizing = FALSE
    /\ resizingImageId = NoId
    /\ resizeDirection = ""
    /\ selectedImageId = NoId
    /\ startY = 0
    /\ startX = 0
    /\ startHeight = Q(0)
    /\ startWidth = Q(0)
    /\ startImageX = Q(0)
    /\ startImageY = Q(0)
    /\ tableWidth \in ScenarioTableWidths
    /\ bodyStyle = [cursor |-> "", userSelect |-> ""]
    /\ listener = NoListener
    /\ reads = <<>>
    /\ nextId = 1
    /\ moves = 0
    /\ last = Event("mount", 0, 0, NoId)
    /\ preFit = <<>>
    /\ InitDocument
    /\ dragStart = <<>>
    /\ drag = NoDrag

ScenarioDrop == Idle /\ Dropped = 0 /\ MayDrop(1) /\ OnDrop(1)

ScenarioImageDown ==
    \E id \in ImageIds, dir \in ScenarioDirections, p \in DownPoints :
        Idle /\ MayMove /\ HandleImageMouseDown(id, dir, p[1], p[2])

ScenarioMove ==
    \E p \in ScenarioMovePoints : MayMove /\ HandleMouseMove(p[1], p[2])

NextScenario ==
    \/ ScenarioDrop
    \/ Load
    \/ TableDown
    \/ ScenarioImageDown
    \/ ScenarioMove
    \/ Up
    \/ ImageClick

SpecScenario == InitScenario /\ [][NextScenario]_vars

\* ------------------------------------------------------------------------
\* The table under a mouse with several buttons: mousedown is dispatched
\* for every button that is pressed, and neither pointer-down handler looks
\* at the button or at the flags, so a second button pressed on the resize
\* handle or on an anchor while the first is held runs the handler again
\* ------------------------------------------------------------------------
ChordTableDown == \E p \in DownPoints : MayMove /\ HandleMouseDown(p[2])

\* anchors grabbed with the second button: one edge of each axis
ChordDirections == {"n", "e"}

ChordImageDown ==
    \E id \in ImageIds, dir \in ChordDirections, p \in DownPoints :
        MayMove /\ HandleImageMouseDown(id, dir, p[1], p[2])

NextChord ==
    \/ Drop
    \/ Load
    \/ ChordTableDown
    \/ ChordImageDown
    \/ Move
    \/ Up
    \/ ImageClick

SpecChord == Init /\ [][NextChord]_vars

\* ------------------------------------------------------------------------
\* removePage on its own, called on page lists of every shape
\* ------------------------------------------------------------------------
\* page lists handed to removePage: up to MaxCallPages pages, each with 0
\* to 2 tables, the first table of the first page being the default table
CallPageLists ==
    UNION { { [i \in 1..n |->
                 [id |-> i,
                  tables |-> [k \in 1..c[i] |->
                                 NewTable((i - 1) * TableCap + k - 1)]]] :
                c \in [1..n -> 0..TableCap] } :
            n \in 1..MaxCallPages }

InitRemovePage ==
    /\ height = Q(DefaultHeight)
    /\ isResizing = FALSE
    /\ leftColumnImages = <<>>
    /\ isImageResizing = FALSE
    /\ resizingImageId = NoId
    /\ resizeDirection = ""
    /\ selectedImageId = NoId
    /\ startY = 0
    /\ startX = 0
    /\ startHeight = Q(0)
    /\ startWidth = Q(0)
    /\ startImageX = Q(0)
    /\ startImageY = Q(0)
    /\ tableWidth \in TableWidths
    /\ bodyStyle = [cursor |-> "", userSelect |-> ""]
    /\ listener = NoListener
    /\ reads = <<>>
    /\ nextId = 1
    /\ moves = 0
    /\ last = Event("mount", 0, 0, NoId)
    /\ preFit = <<>>
    /\ pages \in CallPageLists
    /\ currentPageIndex \in 0..(Len(pages) - 1)
    /\ zoom = DefaultZoom
    /\ docLast = DocEvent("mount", 0, 0)
    /\ tableInstance = Rendered([id |-> DefaultTableId, status |-> "mounted"],
                                pages)
    /\ dragStart = <<>>
    /\ drag = NoDrag

\* removePage(pageId) called from the current render, then the render and
\* the effects that follow
RemovePageCall(pageId) ==
    /\ LET doc == RemovePage(pages, [pages |-> pages,
                                     currentPageIndex |-> currentPageIndex],
                             pageId)
       IN DocCommit("removePage", pageId, doc.pages, doc.currentPageIndex)
    /\ UNCHANGED zoom
    /\ UNCHANGED tableVars

NextRemovePage == \E pageId \in 1..(MaxCallPages + 1) : RemovePageCall(pageId)

SpecRemovePage == InitRemovePage /\ [][NextRemovePage]_vars

\* onDeletePage / onRemovePage, the removePage that DocumentEditor hands to
\* PageContainer and StatusBar, called for a page id
DocRemovePage ==
    \E pageId \in 1..(MaxPages + 1) : RemovePageCall(pageId)

\* the document when removePage is also called on its own, besides the
\* calls that the effect of PageContainer makes for pages without tables
NextDocumentCalls ==
    \/ DocAddPage
    \/ DocPageClick
    \/ DocAddTable
    \/ DocDelete
    \/ DocRemovePage

SpecDocumentCalls == Init /\ [][NextDocumentCalls]_vars

\* ------------------------------------------------------------------------
\* The repack step on its own: sort by y, then reposition
\* ------------------------------------------------------------------------
\* updatedImages.sort(...) followed by the forEach that reassigns y
Repack(imgs) == Reposition(SortByY(imgs), <<>>)

\* image lists handed to the repack step: up to MaxRepackLen images whose
\* heights and offsets are drawn from the values that two sizes of image
\* produce when stacked with the gap of 20, packed or not
RepackHeights == {50, 200}
RepackYs == {0, 70, 140, 220, 290, 440}
RepackInputs ==
    UNION { { [i \in 1..n |-> [id |-> i, width |-> Q(DefaultImageSize),
                               height |-> Q(hs[i]), x |-> Q(0),
                               y |-> Q(ys[i])]] :
                hs \in [1..n -> RepackHeights], ys \in [1..n -> RepackYs] } :
            n \in 0..MaxRepackLen }

InitRepack ==
    /\ leftColumnImages \in RepackInputs
    /\ height = FitTableHeight(leftColumnImages)
    /\ isResizing = FALSE
    /\ isImageResizing = FALSE
    /\ resizingImageId = NoId
    /\ resizeDirection = ""
    /\ selectedImageId = NoId
    /\ startY = 0
    /\ startX = 0
    /\ startHeight = Q(0)
    /\ startWidth = Q(0)
    /\ startImageX = Q(0)
    /\ startImageY = Q(0)
    /\ tableWidth \in TableWidths
    /\ bodyStyle = [cursor |-> "", userSelect |-> ""]
    /\ listener = NoListener
    /\ reads = <<>>
    /\ nextId = Len(leftColumnImages) + 1
    /\ moves = 0
    /\ last = Event("mount", 0, 0, NoId)
    /\ preFit = leftColumnImages
    /\ InitDocument
    /\ dragStart = <<>>
    /\ drag = NoDrag


\* one application of the repack step to the list; preFit keeps its input
RepackStep ==
    /\ last.op = "mount"
    /\ leftColumnImages' = Repack(leftColumnImages)
    /\ preFit' = leftColumnImages
    /\ last' = Event("repack", 0, 0, NoId)
    /\ UNCHANGED <<height, isResizing, isImageResizing, resizingImageId,
                   resizeDirection, selectedImageId, refs, tableWidth,
                   bodyStyle, listener, reads, nextId, moves>>
    /\ UNCHANGED docVars
    /\ UNCHANGED dragStart
    /\ drag' = DragInterleaved

NextRepack == RepackStep

SpecRepack == InitRepack /\ [][NextRepack]_vars

\* ------------------------------------------------------------------------
\* Type invariant
\* ------------------------------------------------------------------------
IsRational(q) == q.n \in Int /\ q.d \in Nat \ {0} /\ Gcd(Abs(q.n), q.d) = 1

TypeOK ==
    /\ IsRational(height)
    /\ \A i \in 1..Len(leftColumnImages) :
          /\ leftColumnImages[i].id \in ImageIds
          /\ IsRational(leftColumnImages[i].width)
          /\ IsRational(leftColumnImages[i].height)
          /\ IsRational(leftColumnImages[i].x)
          /\ IsRational(leftColumnImages[i].y)
    /\ Cardinality(Ids(leftColumnImages)) = Len(leftColumnImages)
    /\ isResizing \in BOOLEAN /\ isImageResizing \in BOOLEAN
    /\ resizeDirection \in Directions \cup {""}
    /\ nextId \in 1..(MaxUploads + 1)
    /\ moves \in 0..MaxMoves

\* ------------------------------------------------------------------------
\* Vocabulary of the properties
\* ------------------------------------------------------------------------
Eq(a, b) == a.n * b.d = b.n * a.d

\* v limited to [lo, hi]
Clamp(v, lo, hi) == IF Lt(v, lo) THEN lo ELSE IF Lt(hi, v) THEN hi ELSE v

\* the list is packed in the order it is stored in
PackedInListOrder(imgs) ==
    \A i \in 1..Len(imgs) :
        IF i = 1 THEN Eq(imgs[i].y, Q(0))
        ELSE Eq(imgs[i].y,
                Add(Add(imgs[i - 1].y, imgs[i - 1].height), Q(ImageGap)))

\* the list is packed when its images are taken in some order of ascending y
PackedInYOrder(imgs) ==
    \E p \in [1..Len(imgs) -> 1..Len(imgs)] :
        /\ \A i, j \in 1..Len(imgs) : i # j => p[i] # p[j]
        /\ \A i, j \in 1..Len(imgs) : i < j => Le(imgs[p[i]].y, imgs[p[j]].y)
        /\ PackedInListOrder([i \in 1..Len(imgs) |-> imgs[p[i]]])

\* the lowest bottom edge needs no more than h - pad
FitsBelow(imgs, h, pad) ==
    \A i \in 1..Len(imgs) :
        Le(Add(Add(imgs[i].y, imgs[i].height), Q(pad)), h)

\* h is exactly max(150, lowest bottom edge + 40)
IsFittedHeight(imgs, h) ==
    /\ Le(Q(150), h)
    /\ FitsBelow(imgs, h, 40)
    /\ \/ Eq(h, Q(150))
       \/ \E i \in 1..Len(imgs) :
             Eq(h, Add(Add(imgs[i].y, imgs[i].height), Q(40)))

IdSeq(imgs) == [i \in 1..Len(imgs) |-> imgs[i].id]

\* v, but no less than lo
AtLeast(v, lo) == IF Lt(v, lo) THEN lo ELSE v

North == {"n", "ne", "nw"}
South == {"s", "se", "sw"}
East == {"e", "ne", "se"}
West == {"w", "nw", "sw"}

\* 50% of the measured table width
HalfTableWidth == Div(Q(MeasuredTableWidth), Q(2))

\* this step is a pointer-move of an image-resize session
ImageMoveStep == moves' = moves + 1 /\ last'.id # NoId

\* the last commit was a pointer-move that resized an image still in the list
ImageMoved == last.op = "mousemove" /\ last.id \in Ids(leftColumnImages)

\* ------------------------------------------------------------------------
\* C1 - C10
\* ------------------------------------------------------------------------

\* C1: after every insertion, image-resize move and removal the image list,
\* taken in y-order, has its first image at y = 0 and every other image at
\* previous.y + previous.height + 20.  Stated for SpecImageOps, where no
\* other operation mutates the table.
C1_PackingInvariant == PackedInYOrder(leftColumnImages)

\* C2: whenever the table has at least one image, its height is at least
\* (maximum over images of y + height) + 40.
C2_HeightCoversImages ==
    Len(leftColumnImages) > 0 => FitsBelow(leftColumnImages, height, 40)

\* C3: the table height is at least 150 in every reachable state.
C3_MinTableHeight == Le(Q(150), height)

\* C3 witness: a table-height drag whose pointer went far enough up for the
\* lower limit to decide the height.
C3_Witness ==
    /\ last.op = "mousemove" /\ last.id = NoId
    /\ listener.isResizing
    /\ Lt(Add(startHeight, Q(last.clientY - startY)), Q(150))
    /\ Eq(height, Q(150))

\* C4: after every image-resize move the resized image has
\* 50 <= width <= maxImageWidth and height >= 50, maxImageWidth being 50% of
\* the measured table width.
C4_ResizedImageBounds ==
    ImageMoved =>
        LET img == Find(leftColumnImages, last.id)
        IN /\ Le(Q(50), img.width)
           /\ Le(img.width, Div(Q(MeasuredTableWidth), Q(2)))
           /\ Le(Q(50), img.height)

\* C5: every image record has width >= 50, height >= 50, x >= 0 and y >= 0.
C5_ImageRecordBounds ==
    \A i \in 1..Len(leftColumnImages) :
        /\ Le(Q(50), leftColumnImages[i].width)
        /\ Le(Q(50), leftColumnImages[i].height)
        /\ Le(Q(0), leftColumnImages[i].x)
        /\ Le(Q(0), leftColumnImages[i].y)

\* C6: the width, height and x that a resize move assigns to the selected
\* image are the reference formulas applied to the drag-start snapshot and
\* the cumulative delta; a corner is the composition of its two edges.
C6_DirectionFormulas ==
    [][ (ImageMoveStep /\ last'.id \in Ids(leftColumnImages)) =>
          LET dir == listener.resizeDirection
              deltaX == Q(last'.clientX - startX)
              deltaY == Q(last'.clientY - startY)
              old == Find(leftColumnImages, last'.id)
              new == Find(leftColumnImages', last'.id)
              refWidth ==
                  IF dir \in East
                  THEN Clamp(Add(startWidth, deltaX), Q(50), HalfTableWidth)
                  ELSE IF dir \in West
                  THEN Clamp(Sub(startWidth, deltaX), Q(50), HalfTableWidth)
                  ELSE old.width
              refHeight ==
                  IF dir \in North THEN AtLeast(Sub(startHeight, deltaY), Q(50))
                  ELSE IF dir \in South
                  THEN AtLeast(Add(startHeight, deltaY), Q(50))
                  ELSE old.height
              refX ==
                  IF dir \in West
                  THEN Clamp(Add(startImageX, Sub(startWidth, refWidth)),
                             Q(0), Sub(HalfTableWidth, refWidth))
                  ELSE old.x
          IN /\ Eq(new.width, refWidth)
             /\ Eq(new.height, refHeight)
             /\ Eq(new.x, refX) ]_vars

\* C6 witness: a north-west move during which the image got narrower and
\* lower, so that its x moved to the right to keep the right edge.
C6_Witness ==
    /\ ImageMoved /\ isImageResizing /\ resizeDirection = "nw"
    /\ resizingImageId = last.id
    /\ LET img == Find(leftColumnImages, last.id)
       IN /\ Lt(img.width, startWidth)
          /\ Lt(img.height, startHeight)
          /\ Lt(Q(0), img.x)

\* C7: after every pointer-move of an image-resize session the list is the
\* repack of the updated list (ordered by the updated y, y reassigned from 0
\* with a gap of 20) and the table height is max(150, maxBottom + 40).
C7_RepackAndFit ==
    [][ (ImageMoveStep /\ Len(leftColumnImages) > 0) =>
          LET new == leftColumnImages'
              updatedY(img) ==
                  IF img.id = last'.id /\ listener.resizeDirection \in North
                  THEN Add(startImageY, Sub(startHeight, img.height))
                  ELSE Find(leftColumnImages, img.id).y
          IN /\ Ids(new) = Ids(leftColumnImages)
             /\ Len(new) = Len(leftColumnImages)
             /\ \A i, j \in 1..Len(new) :
                    i < j => Le(updatedY(new[i]), updatedY(new[j]))
             /\ PackedInListOrder(new)
             /\ IsFittedHeight(new, height') ]_vars

\* C7 witness: the second image was dragged north past the first one and is
\* now stored first.
C7_Witness ==
    /\ ImageMoved /\ last.id = 2
    /\ Len(leftColumnImages) = 2
    /\ leftColumnImages[1].id = 2 /\ leftColumnImages[2].id = 1
    /\ Lt(Q(200), leftColumnImages[1].height)
    /\ Lt(Q(150), height)

\* C8: a completed upload appends one 200 x 200 image at x = 0 whose y is
\* (y + height + 20) of the last image of the list it is appended to, or 0,
\* and the table height becomes max(150, maxBottom + 40) of the result.
C8_AppendBelowLast ==
    last.op = "load" =>
        LET n == Len(leftColumnImages)
            new == leftColumnImages[n]
        IN /\ n = Len(preFit) /\ n > 0
           /\ new.id = last.id
           /\ Eq(new.width, Q(200)) /\ Eq(new.height, Q(200))
           /\ Eq(new.x, Q(0))
           /\ IF n = 1 THEN Eq(new.y, Q(0))
              ELSE Eq(new.y, Add(Add(preFit[n - 1].y, preFit[n - 1].height),
                                 Q(20)))
           /\ IsFittedHeight(leftColumnImages, height)

\* C9: removing an image removes exactly that image, keeps the order, width,
\* height and x of the others, repacks them, and sets the table height to
\* max(150, maxBottom + 40), or to 300 when no image is left.
C9_RemoveRepacks ==
    [][ Len(leftColumnImages') < Len(leftColumnImages) =>
          LET old == leftColumnImages
              new == leftColumnImages'
              kept == {i \in 1..Len(old) : old[i].id # last'.id}
          IN /\ last'.op = "remove" /\ last'.id \in Ids(old)
             /\ Len(new) = Len(old) - 1
             /\ \A i \in kept :
                   LET k == Cardinality({j \in kept : j <= i})
                   IN /\ new[k].id = old[i].id
                      /\ new[k].width = old[i].width
                      /\ new[k].height = old[i].height
                      /\ new[k].x = old[i].x
             /\ PackedInListOrder(new)
             /\ IF Len(new) = 0 THEN Eq(height', Q(300))
                ELSE IsFittedHeight(new, height') ]_vars

\* C9 witness: the first of two images was removed and the other one, which
\* had been resized, moved up to y = 0.
C9_Witness ==
    /\ last.op = "remove" /\ last.id = 1
    /\ Len(leftColumnImages) = 1
    /\ leftColumnImages[1].id = 2
    /\ Eq(leftColumnImages[1].y, Q(0))
    /\ ~Eq(leftColumnImages[1].height, Q(200))
    /\ Lt(Q(150), height)

\* what the passive re-fit makes of image o when the table height is H
RefitOutcome(o, new, H) ==
    LET available == Sub(H, Q(20))
        ratio == Div(o.width, o.height)
        fitHeight == AtLeast(Sub(available, o.y), Q(50))
        fitWidth == Mul(fitHeight, ratio)
        cellLimit == Sub(HalfTableWidth, Q(20))
    IN IF Lt(available, Add(o.y, o.height))
       THEN /\ IF Lt(cellLimit, fitWidth)
               THEN /\ Eq(new.width, cellLimit)
                    /\ Eq(new.height, Div(new.width, ratio))
               ELSE /\ Eq(new.height, fitHeight)
                    /\ Eq(new.width, fitWidth)
            /\ Eq(Mul(new.width, o.height), Mul(new.height, o.width))
            /\ new.id = o.id /\ new.x = o.x /\ new.y = o.y
       ELSE new = o

\* C10: when the table height changes to H, every image whose bottom exceeds
\* H - 20 is re-fitted (height max(50, H - 20 - y), width by the old ratio,
\* or width = cell width - 20 and height by the ratio when that is too wide),
\* its ratio is preserved, and the other images are unchanged.
C10_PassiveRefit ==
    [][ height' # height =>
          /\ Len(leftColumnImages') = Len(preFit')
          /\ \A i \in 1..Len(preFit') :
                RefitOutcome(preFit'[i], leftColumnImages'[i], height') ]_vars

\* C10 witness: a table-height drag after which one image was re-fitted by
\* height and another one was limited by the cell width.
C10_Witness ==
    /\ last.op = "mousemove" /\ last.id = NoId
    /\ \E i, j \in 1..Len(leftColumnImages) :
          /\ Lt(leftColumnImages[i].height, preFit[i].height)
          /\ Lt(leftColumnImages[i].width, Sub(HalfTableWidth, Q(20)))
          /\ Lt(leftColumnImages[j].width, preFit[j].width)
          /\ Eq(leftColumnImages[j].width, Sub(HalfTableWidth, Q(20)))

\* ------------------------------------------------------------------------
\* C11 - C20
\* ------------------------------------------------------------------------

\* this step is a pointer-move of a table-height drag
TableMoveStep ==
    /\ moves' = moves + 1
    /\ listener.isResizing /\ ~listener.isImageResizing

\* C11: a pointer-move of a table-height drag that increases the table
\* height leaves the width, height, x and y of every image unchanged.
C11_GrowKeepsImages ==
    [][ (TableMoveStep /\ Lt(height, height')) =>
            leftColumnImages' = leftColumnImages ]_vars

\* C11 witness: the table was shrunk so far that an image was re-fitted,
\* and was then dragged taller than it was when the drag began, with the
\* re-fitted image still smaller than its uploaded size.
C11_Witness ==
    /\ last.op = "mousemove" /\ last.id = NoId
    /\ listener.isResizing
    /\ Lt(startHeight, height)
    /\ \E i \in 1..Len(leftColumnImages) :
          Lt(leftColumnImages[i].height, Q(DefaultImageSize))

\* every image of a is in b with the same width, height, x and y
SameGeometry(a, b) ==
    /\ Ids(a) = Ids(b)
    /\ \A i \in 1..Len(a) : Find(b, a[i].id) = a[i]

\* C12: the repack step applied to a list that satisfies the packing rule
\* returns the same images with identical y values, in the order of their
\* y; a list that is packed in its stored order is returned as it is.
C12_RepackIdempotent ==
    [][ RepackStep =>
          /\ PackedInYOrder(leftColumnImages) =>
                /\ SameGeometry(leftColumnImages, leftColumnImages')
                /\ PackedInListOrder(leftColumnImages')
          /\ PackedInListOrder(leftColumnImages) =>
                leftColumnImages' = leftColumnImages ]_vars

\* C12 witness: the repack step has run on a packed list of three images
\* that was not stored in the order of its y values.
C12_Witness ==
    /\ last.op = "repack"
    /\ Len(preFit) = 3
    /\ PackedInYOrder(preFit)
    /\ ~PackedInListOrder(preFit)
    /\ SameGeometry(preFit, leftColumnImages)

\* this step is a delete request for the table with the given id
DeleteRequestStep(id) ==
    /\ docLast'.op \in {"handleDelete", "deleteTable"}
    /\ docLast'.id = id
    /\ \E i \in PagePositions, j \in TablePositions :
          /\ i <= Len(pages) /\ j <= Len(pages[i].tables)
          /\ pages[i].tables[j].id = id
          /\ DeleteClick(i, j)

\* C13: a delete request for the table whose id is "table-default" leaves
\* the table list of every page unchanged.
C13_DefaultTableProtected ==
    [][ DeleteRequestStep(DefaultTableId) => pages' = pages ]_vars

\* C13 witness: a delete request for the default table was made while its
\* page was the current page and held a second table; both are still there.
C13_Witness ==
    /\ docLast.op = "handleDelete" /\ docLast.id = DefaultTableId
    /\ currentPageIndex = 0
    /\ Len(pages[1].tables) = 2
    /\ DefaultTableId \in TableIdsOf(pages)

\* C14: removePage called when exactly one page exists leaves the page
\* list and currentPageIndex unchanged.
C14_LastPageProtected ==
    [][ ((\E pageId \in 1..(MaxCallPages + 1) : RemovePageCall(pageId))
         /\ Len(pages) = 1)
        => (pages' = pages /\ currentPageIndex' = currentPageIndex) ]_vars

\* C14 witness: removePage was called with the id of the only page, and
\* that page is still there.
C14_Witness ==
    /\ docLast.op = "removePage"
    /\ Len(pages) = 1
    /\ pages[1].id = docLast.id
    /\ docLast.removed = 0

\* C15: after any sequence of add-page, remove-page (called on its own or
\* by the effect for empty pages), page-click, insert-table and delete-table
\* the page list is non-empty and 0 <= currentPageIndex < number of pages.
C15_PageIndexValid ==
    /\ Len(pages) >= 1
    /\ 0 <= currentPageIndex
    /\ currentPageIndex < Len(pages)

\* C15 witness: the only table of the second page was deleted, the effect
\* removed the emptied page, and the index went down to the first page.
C15_Witness ==
    /\ docLast.op = "deleteTable" /\ docLast.removed = 1
    /\ Len(pages) = 1
    /\ currentPageIndex = 0

\* no page of the list is without tables
NoEmptyPage(ps) == \A i \in 1..Len(ps) : Len(ps[i].tables) > 0

\* C16: whenever a page's table list becomes empty, that page is removed
\* from the page list: once the effects of a commit have run, no page is
\* without tables.  Stated for SpecDocument, the document as its rendered
\* controls drive it; removePage is handed to StatusBar as well, but no
\* element there calls it.
C16_EmptyPagesRemoved == NoEmptyPage(pages)

\* C16 witness: a delete request emptied the current page, the second one,
\* and the effect removed that page.
C16_Witness ==
    /\ docLast.op = "deleteTable" /\ docLast.removed = 1
    /\ docLast.id \notin TableIdsOf(pages)
    /\ NoEmptyPage(pages)
    /\ PageIdsOf(pages) = {FirstPageId}

\* C17: after any sequence of Add-Table clicks (on any page's button), page
\* clicks, add-page and delete-table operations no page holds more than 2
\* tables.
C17_TableCap == \A i \in 1..Len(pages) : Len(pages[i].tables) <= 2

\* C18: after any sequence of zoom-in, zoom-out, reset, Ctrl+wheel and
\* Ctrl+key operations starting from 100 the zoom percent is an integer
\* with 25 <= zoom <= 500.
C18_ZoomRange == zoom \in Int /\ 25 <= zoom /\ zoom <= 500

\* C18 witness: the zoom was taken down by the wheel until the lower limit
\* cut a step short, 30 - 10 giving 25.
C18_Witness == docLast.op = "wheel" /\ zoom = 25

\* a drag session, table resize or image resize, is active
SessionActive == isResizing \/ isImageResizing

\* C19: the document-level move/up listeners are attached exactly while a
\* drag session is active, and a pointer-move that comes while no session
\* is active changes neither the table height nor the image list.
C19_DragSessionCleanup ==
    /\ [](listener.attached <=> SessionActive)
    /\ [][ (moves' = moves + 1 /\ ~SessionActive) =>
              (height' = height /\ leftColumnImages' = leftColumnImages) ]_vars

\* C19 witness: the empty table was dragged down to its lower limit, the
\* pointer was released, and a pointer-move came afterwards.
C19_Witness ==
    /\ last.op = "unheard"
    /\ startY # 0
    /\ ~SessionActive /\ ~listener.attached
    /\ leftColumnImages = <<>>
    /\ Eq(height, Q(150))

\* C20: the image list and the table height after a pointer-move of an
\* image-resize session are what the captured drag-start state and the
\* cumulative delta alone determine, whichever pointer-moves the session
\* processed before: they are the result of that one move made on the
\* image list of the pointer-down.  Stated for the moves of a session
\* during which no image was added.
C20_PathIndependent ==
    [][ (ImageMoveStep /\ Ids(dragStart) = Ids(leftColumnImages)) =>
          LET fromStart ==
                  ResizeImages(dragStart, listener.resizingImageId,
                               listener.resizeDirection,
                               last'.clientX - startX, last'.clientY - startY)
          IN /\ leftColumnImages' = fromStart
             /\ height' = FitTableHeight(fromStart) ]_vars

\* ------------------------------------------------------------------------
\* C21 - C30
\* ------------------------------------------------------------------------

\* this step handles a pointer-move at the position of the pointer-move
\* that the same drag session handled just before it
DuplicateMoveStep ==
    /\ moves' = moves + 1
    /\ listener.attached
    /\ drag.movedAt = <<last'.clientX, last'.clientY>>

\* C21: within a drag session, table resize or image resize, a pointer-move
\* processed twice in a row gives the image list and the table height that
\* processing it once gave: the second of the two changes neither.
C21_DuplicateMoveIdempotent ==
    [][ DuplicateMoveStep =>
            (leftColumnImages' = leftColumnImages /\ height' = height) ]_vars

\* this step is the completion of a file read of a table that was deleted,
\* alone or with its page, while the read was in flight
LateLoadStep ==
    /\ tableInstance.status = "unmounted"
    /\ Len(reads') = Len(reads) - 1

LoadStep == nextId' = nextId + 1 /\ last'.op = "load"

\* an image of 200 x 200 at x = 0 and the given y
Image200(id, y) ==
    [id |-> id, width |-> Q(200), height |-> Q(200), x |-> Q(0), y |-> Q(y)]

\* this step is a drop of one file while no read is in flight
SingleDropStep == reads = <<>> /\ Len(reads') = 1

\* this step is a click on the remove button of image id
RemoveStep(id) ==
    /\ id \in Ids(leftColumnImages)
    /\ last' = Event("remove", 0, 0, id)

\* C23: the scenario insert A, insert B, delete A, each insertion being a
\* drop of one file followed by the completion of its read.  From the empty
\* list and table height 300, inserting A gives A.y = 0 and height 240;
\* then inserting B gives B.y = 220 and height 460; then deleting A gives
\* B.y = 0 and height 240; both images are 200 x 200 throughout.
C23_InsertThenDelete ==
    /\ [][ (SingleDropStep /\ leftColumnImages = <<>>) =>
               reads' = <<Q(0)>> ]_vars
    /\ [][ (LoadStep /\ leftColumnImages = <<>> /\ Eq(height, Q(300))
            /\ reads = <<Q(0)>>) =>
               /\ leftColumnImages' = <<Image200(last'.id, 0)>>
               /\ Eq(height', Q(240)) ]_vars
    /\ [][ (SingleDropStep /\ Len(leftColumnImages) = 1
            /\ leftColumnImages = <<Image200(leftColumnImages[1].id, 0)>>) =>
               reads' = <<Q(220)>> ]_vars
    /\ [][ (LoadStep /\ Len(leftColumnImages) = 1
            /\ leftColumnImages = <<Image200(leftColumnImages[1].id, 0)>>
            /\ Eq(height, Q(240)) /\ reads = <<Q(220)>>) =>
               /\ leftColumnImages' = <<leftColumnImages[1],
                                        Image200(last'.id, 220)>>
               /\ Eq(height', Q(460)) ]_vars
    /\ [][ (Len(leftColumnImages) = 2
            /\ leftColumnImages = <<Image200(leftColumnImages[1].id, 0),
                                    Image200(leftColumnImages[2].id, 220)>>
            /\ Eq(height, Q(460))
            /\ RemoveStep(leftColumnImages[1].id)) =>
               /\ leftColumnImages' = <<Image200(leftColumnImages[2].id, 0)>>
               /\ Eq(height', Q(240)) ]_vars

\* C23 witness: A and B were inserted, A was deleted, no drag had taken
\* place; B is alone at y = 0 in a table 240 high.
C23_Witness ==
    /\ last = Event("remove", 0, 0, 1)
    /\ nextId = 3 /\ reads = <<>> /\ moves = 0
    /\ leftColumnImages = <<Image200(2, 0)>>
    /\ Eq(height, Q(240))

\* the table is 300 high and holds one image of 200 x 200 at y = 0, the
\* usable cell width of the re-fit is 380, and this step is a pointer-move
\* of a table-height drag that asks for the height 100
ShrinkTo100Step ==
    /\ TableMoveStep
    /\ Eq(height, Q(300)) /\ Eq(drag.height0, Q(300))
    /\ Len(leftColumnImages) = 1
    /\ leftColumnImages = <<Image200(leftColumnImages[1].id, 0)>>
    /\ Eq(Sub(HalfTableWidth, Q(20)), Q(380))
    /\ last'.clientY - drag.y0 = -200

\* the list holds one image, at x = 0 and y = 0, of the given square size
OneSquareImage(imgs, size) ==
    /\ Len(imgs) = 1
    /\ Eq(imgs[1].width, Q(size)) /\ Eq(imgs[1].height, Q(size))
    /\ Eq(imgs[1].x, Q(0)) /\ Eq(imgs[1].y, Q(0))

\* C24 as stated: shrinking that table to the height 100 leaves the image
\* with the size 80 x 80.
C24_ShrinkTo100 ==
    [][ ShrinkTo100Step => OneSquareImage(leftColumnImages', 80) ]_vars

\* C24: for a table of height 300 holding one image of 200 x 200 at y = 0
\* and a usable cell width of 380, a drag that asks for the table height 100
\* stops at the lower limit 150 and leaves the image with the size
\* 130 x 130, max(50, 150 - 20 - 0) high and as wide by its ratio of 1.
C24_ShrinkTo150 ==
    [][ ShrinkTo100Step =>
            /\ Eq(height', Q(150))
            /\ OneSquareImage(leftColumnImages', 130)
            /\ leftColumnImages'[1].id = leftColumnImages[1].id ]_vars

\* C24 witness: a drag that began at the table height 300 has asked for
\* the height 100 around an image of 200 x 200; the table is 150 high and
\* the image 130 x 130.
C24_Witness ==
    /\ last.op = "mousemove" /\ last.id = NoId
    /\ listener.isResizing
    /\ Eq(drag.height0, Q(300)) /\ last.clientY - drag.y0 = -200
    /\ preFit = <<Image200(1, 0)>>
    /\ Eq(Sub(HalfTableWidth, Q(20)), Q(380))
    /\ Eq(height, Q(150))
    /\ OneSquareImage(leftColumnImages, 130)

\* C25: after every pointer-move of a w, nw or sw resize the resized image
\* has 0 <= x <= maxImageWidth - width, and its right edge x + width is
\* where it was at the pointer-down whenever x is the unclamped
\* startX + (startWidth - width).  In particular an image with x = 300 and
\* width = 50 in a cell with maxImageWidth = 350, dragged west by 100, ends
\* with width 150 and x in [0, 200].
C25_WestStaysInCell ==
    [][ (ImageMoveStep /\ listener.resizeDirection \in West
         /\ last'.id \in Ids(leftColumnImages)) =>
          LET new == Find(leftColumnImages', last'.id)
              free == Add(startImageX, Sub(startWidth, new.width))
          IN /\ Le(Q(0), new.x)
             /\ Le(new.x, Sub(HalfTableWidth, new.width))
             /\ Eq(new.x, free) =>
                   Eq(Add(new.x, new.width), Add(startImageX, startWidth))
             /\ (/\ Eq(startImageX, Q(300)) /\ Eq(startWidth, Q(50))
                 /\ Eq(HalfTableWidth, Q(350))
                 /\ last'.clientX - startX = -100) =>
                   /\ Eq(new.width, Q(150))
                   /\ Le(Q(0), new.x) /\ Le(new.x, Q(200)) ]_vars

\* C25 witness: the image was widened to 350, narrowed from the west to a
\* width of 50 at x = 300, and has now been dragged west by 100 in a table
\* 700 wide: it is 150 wide at x = 200.
C25_Witness ==
    /\ ImageMoved /\ isImageResizing /\ resizeDirection \in West
    /\ tableWidth = 700
    /\ Eq(startImageX, Q(300)) /\ Eq(startWidth, Q(50))
    /\ last.clientX - startX = -100
    /\ LET img == Find(leftColumnImages, last.id)
       IN Eq(img.width, Q(150)) /\ Eq(img.x, Q(200))

\* C26: after a pointer-move of an n, ne or nw resize has been fully
\* processed, the y of the resized image is startY + (startHeight -
\* newHeight), so that its bottom edge y + height is where it was at the
\* pointer-down, startY + startHeight.
C26_NorthKeepsBottom ==
    [][ (ImageMoveStep /\ listener.resizeDirection \in North
         /\ last'.id \in Ids(leftColumnImages)) =>
          LET new == Find(leftColumnImages', last'.id)
          IN /\ Eq(new.y, Add(startImageY, Sub(startHeight, new.height)))
             /\ Eq(Add(new.y, new.height), Add(startImageY, startHeight)) ]_vars

\* C27: after each pointer-move of a table-height drag the table height is
\* max(150, H0 + (currentY - Y0)), H0 and Y0 being the table height and the
\* pointer Y at the pointer-down that began this session, whatever an
\* earlier image-resize session left in the start-value holders.
C27_TableDragHeight ==
    [][ TableMoveStep =>
            Eq(height', AtLeast(Add(drag.height0, Q(last'.clientY - drag.y0)),
                                Q(150))) ]_vars

\* C27 witness: an image-resize session came first and left the height of
\* its image in startHeight; the table-height drag that followed has moved
\* the table to a height above 150 that differs from the one it began with.
C27_Witness ==
    /\ last.op = "mousemove" /\ last.id = NoId
    /\ listener.isResizing /\ drag.movedAt # <<>>
    /\ resizingImageId # NoId /\ resizeDirection # ""
    /\ ~Eq(startWidth, Q(0))
    /\ Lt(Q(150), height) /\ ~Eq(height, drag.height0)
    /\ Eq(height, Add(drag.height0, Q(last.clientY - drag.y0)))

\* C28: the packing rule survives a table-height drag: when the image list
\* is packed, it is packed again after a pointer-move of a table-height
\* drag and the passive re-fit that this move triggers (first image at
\* y = 0, every other image at previous.y + previous.height + 20).
C28_PackingSurvivesTableDrag ==
    [][ (TableMoveStep /\ PackedInYOrder(leftColumnImages)) =>
            PackedInYOrder(leftColumnImages') ]_vars

\* the image-resize session in progress was begun on an image that is no
\* longer in the list
StaleSession ==
    /\ listener.attached /\ listener.isImageResizing
    /\ listener.resizingImageId \notin Ids(leftColumnImages)

\* C29: a pointer-move or a pointer-up processed in an image-resize session
\* whose captured image id is no longer in the image list leaves the image
\* list and the table height unchanged.
C29_StaleTargetIgnored ==
    [][ (StaleSession /\ (moves' = moves + 1 \/ listener' # listener)) =>
            (leftColumnImages' = leftColumnImages /\ height' = height) ]_vars

OverrideSet == bodyStyle = [cursor |-> "ns-resize", userSelect |-> "none"]

\* the body carries neither
OverrideCleared == bodyStyle = [cursor |-> "", userSelect |-> ""]

\* this step is a pointer-down that starts a drag session
SessionStartStep == ~SessionActive /\ SessionActive'

\* C31: the global cursor / text-selection override is set if and only if a
\* drag session is active: the pointer-down that starts a table resize or
\* an image resize sets it, it stays set in every state of the session, and
\* it is cleared in every state in which neither resize flag is set.
C31_OverrideIffSession ==
    /\ [](IF SessionActive THEN OverrideSet ELSE OverrideCleared)
    /\ [][SessionStartStep => OverrideSet']_vars

\* C31 witness: a session handled a pointer-move and was ended by the
\* pointer-up; no session is active and the override is cleared.
C31_Witness ==
    /\ moves > 0
    /\ drag = NoDrag
    /\ ~SessionActive
    /\ OverrideCleared

\* C32: the two drag sessions of one table are mutually exclusive: after
\* any sequence of pointer-downs on the resize handle or on an anchor,
\* pointer-moves and pointer-ups the table-resize flag and the image-resize
\* flag are never both set, a session starts only when no session is
\* active, and when a session ends no session is active.
C32_SessionsExclusive ==
    /\ [](~(isResizing /\ isImageResizing))
    /\ [][ /\ (~isResizing /\ isResizing') => ~isImageResizing
           /\ (~isImageResizing /\ isImageResizing') => ~isResizing
           /\ (isResizing /\ ~isResizing') => ~SessionActive'
           /\ (isImageResizing /\ ~isImageResizing') => ~SessionActive' ]_vars

\* the page list without the table of the given id, a page left without
\* tables being removed with it
WithoutTable(ps, id) ==
    SelectSeq([i \in 1..Len(ps) |->
                  [ps[i] EXCEPT !.tables =
                      SelectSeq(ps[i].tables, LAMBDA table : table.id # id)]],
              LAMBDA page : page.tables # <<>>)

\* C33: a delete request for a table other than the default table removes
\* that table, and only that table, from the page that contains it,
\* whichever page is the current page at the time of the request: every
\* other table stays on its page, in its place.
C33_DeleteRemovesTable ==
    [][ \A id \in 1..(MaxPages * MaxPageTables) :
          DeleteRequestStep(id) =>
              /\ id \notin TableIdsOf(pages')
              /\ pages' = WithoutTable(pages, id) ]_vars

\* width, height and x of the image with the given id are the same in both
\* lists
SameBox(a, b, id) ==
    /\ Find(a, id).width = Find(b, id).width
    /\ Find(a, id).height = Find(b, id).height
    /\ Find(a, id).x = Find(b, id).x

\* C34: frame of a pointer-move of an image-resize session: only the
\* resized image may change its width, height and x, every other image
\* keeps its width, height and x; a move of the n or s anchor leaves the
\* width and x of the resized image unchanged; a move of the e or w anchor
\* leaves the height and y of every image unchanged.
C34_ResizeFrame ==
    [][ ImageMoveStep =>
          LET id == listener.resizingImageId
              dir == listener.resizeDirection
              old == leftColumnImages
              new == leftColumnImages'
          IN /\ Ids(new) = Ids(old)
             /\ \A o \in Ids(old) \ {id} : SameBox(new, old, o)
             /\ dir \in {"n", "s"} =>
                    /\ Find(new, id).width = Find(old, id).width
                    /\ Find(new, id).x = Find(old, id).x
             /\ dir \in {"e", "w"} =>
                    \A o \in Ids(old) :
                        /\ Find(new, o).height = Find(old, o).height
                        /\ Find(new, o).y = Find(old, o).y ]_vars

\* C35: a pointer-move of an image-resize session never changes the
\* relative order of the images: for any direction and delta the sequence
\* of image ids of the list is the same after the move as before it.
C35_ResizeKeepsOrder ==
    [][ ImageMoveStep => IdSeq(leftColumnImages') = IdSeq(leftColumnImages) ]_vars

\* C36: every image stays horizontally inside its cell: in every state
\* reached by insertions and by image-resize moves of any direction, the
\* table width being fixed, each image has x + width <= maxImageWidth.
C36_ImagesInsideCell ==
    \A i \in 1..Len(leftColumnImages) :
        Le(Add(leftColumnImages[i].x, leftColumnImages[i].width),
           MaxImageWidth)

\* C37: the image selection never dangles: in every reachable state
\* selectedImageId is null or the id of an image of the image list of the
\* table, in particular after the selected image has been removed.
C37_SelectionNeverDangles ==
    selectedImageId = NoId \/ selectedImageId \in Ids(leftColumnImages)

\* C38: after a pointer-move of a table-height drag has changed the table
\* height and the passive re-fit that follows it has run, every image fits
\* in the available height: y + height <= table height - 20.
C38_RefitFitsEveryImage ==
    [][ (TableMoveStep /\ height' # height) =>
          FitsBelow(leftColumnImages', height', 20) ]_vars

====
